---------------------------- MODULE Spec2Model ----------------------------
(***************************************************************************)
(* Model of the weekly photo organizer's collage engine:                   *)
(*   - generate_collage / process_image_for_slot  (src/collage_utils.py)   *)
(*   - the collage editor's pan/zoom session      (src/main.py)            *)
(*   - the week grid and source panel handlers    (src/main.py)            *)
(* Python floats are modelled as exact rationals [n |-> Int, d |-> Nat]    *)
(* kept in lowest terms; Python ints stay integers.                        *)
(***************************************************************************)
EXTENDS Integers, Sequences, FiniteSets, TLC

VARIABLES
    pc,            \* which call is in progress / has returned
    crop_in,       \* arguments of the process_image_for_slot call under study
    box,           \* (left, top, right, bottom) handed to img.resize
    image_paths,   \* generate_collage argument: the ordered source images
    spacing,       \* generate_collage argument: gap between slots, in pixels
    slot_configs,  \* generate_collage argument: [none, list]; none = None was passed
    canvas,        \* the pastes made so far, in order: [x, y, w, h, src, box]
    result,        \* what generate_collage returned
    weeks_originals,      \* state['weeks_originals']: week -> source images
    weeks_collage_config, \* state['weeks_collage_config']: week -> [has, spacing, slots]
    weeks_data,           \* state['weeks_data']: week -> display image
    editor_state,         \* the collage editor's session state
    dialog_open,          \* whether editor_dialog is open
    events,               \* input events handled so far
    wheels,               \* wheel events that changed a zoom so far
    unreadable,    \* the source files Image.open cannot decode
    disk,          \* whether writing the output can succeed: ok, full, denied
    clock,         \* int(datetime.now().timestamp())
    files,         \* temp_collages: timestamp -> absent, partial or complete
    opened,        \* the source images the last call opened, in order
    out_name,      \* the timestamp in the returned path (0: no path)
    calls,         \* generate_collage calls made in a run of the compositor
    first_call,    \* what the first of them was given and what it painted
    preview_slots, \* the slot rectangles render_editor_layout laid out
    last_event,    \* the input event handled last
    at_open,       \* the week state when the editor was last opened
    images,        \* state['images']: the source panel
    dragged_image, \* state['dragged_image']
    drag_source    \* state['drag_source']: "source" or a week number

cropVars == <<crop_in, box>>
collageVars == <<image_paths, spacing, slot_configs, canvas, result>>
weekVars == <<weeks_originals, weeks_collage_config, weeks_data>>
editorVars == <<editor_state, dialog_open, events, wheels>>
ioVars == <<unreadable, disk, clock, files, opened, out_name, calls, first_call>>
sessionVars == <<preview_slots, last_event, at_open>>
dragVars == <<images, dragged_image, drag_source>>
vars == <<pc, cropVars, collageVars, weekVars, editorVars, ioVars, sessionVars,
          dragVars>>

(***************************************************************************)
(* Bounds of the model.                                                    *)
(***************************************************************************)
MaxDim == 3          \* source and target sizes range over 1..MaxDim
MaxImages == 5       \* generate_collage is called with 0..MaxImages images
MaxEvents == 5       \* input events handled in one run of the editor model
MaxWheel == 2        \* of which wheel events that change a zoom
MaxClock == 2        \* the clock runs over 1..MaxClock seconds
MaxCalls == 2        \* generate_collage calls in one run of the compositor
MaxComposed == 3     \* images per call in the runs with failures and repeats
CenterSteps == 1     \* centers range over k/(2*CenterSteps), k in 0..2*CenterSteps

(***************************************************************************)
(* Exact rational arithmetic standing for Python's float operators.        *)
(***************************************************************************)
Abs(x) == IF x < 0 THEN -x ELSE x

RECURSIVE GCD(_, _)
GCD(a, b) == IF b = 0 THEN a ELSE GCD(b, a % b)

Rat(n, d) ==
    LET g == GCD(Abs(n), Abs(d))
        s == IF d < 0 THEN -1 ELSE 1
    IN  [n |-> (s * n) \div g, d |-> (s * d) \div g]

RInt(i) == [n |-> i, d |-> 1]
\* Sums and comparisons go through the least common denominator and products
\* cancel crosswise first, so intermediate integers stay small.
Lcd(a, b) == (a.d \div GCD(a.d, b.d)) * b.d
Scaled(a, l) == a.n * (l \div a.d)
RAdd(a, b) == LET l == Lcd(a, b) IN Rat(Scaled(a, l) + Scaled(b, l), l)
RSub(a, b) == LET l == Lcd(a, b) IN Rat(Scaled(a, l) - Scaled(b, l), l)
RMul(a, b) ==
    LET g1 == GCD(Abs(a.n), b.d)
        g2 == GCD(Abs(b.n), a.d)
    IN  Rat((a.n \div g1) * (b.n \div g2), (a.d \div g2) * (b.d \div g1))
RInv(a) == Rat(a.d, a.n)
RDiv(a, b) == RMul(a, RInv(b))
RNeg(a) == [n |-> -a.n, d |-> a.d]
RLt(a, b) == LET l == Lcd(a, b) IN Scaled(a, l) < Scaled(b, l)
RLe(a, b) == LET l == Lcd(a, b) IN Scaled(a, l) <= Scaled(b, l)
RAbs(a) == [n |-> Abs(a.n), d |-> a.d]

R0 == RInt(0)
RHalf == Rat(1, 2)
RTwo == RInt(2)

(***************************************************************************)
(* process_image_for_slot: the crop solver.                                *)
(***************************************************************************)
DefaultConfig == [center_x |-> RHalf, center_y |-> RHalf, zoom |-> RInt(1)]

\* Step 2, the "cover" region at zoom 1: <<base_visible_w, base_visible_h>>.
BaseVisibleContain(img_w, img_h, target_w, target_h) ==
    LET target_aspect == Rat(target_w, target_h)
        img_aspect == Rat(img_w, img_h)
    IN  IF RLt(img_aspect, target_aspect)
        THEN <<RMul(RInt(img_h), target_aspect), RInt(img_h)>>
        ELSE <<RInt(img_w), RDiv(RInt(img_w), target_aspect)>>

BaseVisibleBadHeight(img_w, img_h, target_w, target_h) ==
    LET target_aspect == Rat(target_w, target_h)
        img_aspect == Rat(img_w, img_h)
    IN  IF RLt(target_aspect, img_aspect)
        THEN <<RMul(RInt(img_h), target_aspect), RInt(img_h)>>
        ELSE <<RInt(img_w), RMul(RInt(img_w), target_aspect)>>

BaseVisible(img_w, img_h, target_w, target_h) ==
    LET target_aspect == Rat(target_w, target_h)
        img_aspect == Rat(img_w, img_h)
    IN  IF RLt(target_aspect, img_aspect)
        THEN <<RMul(RInt(img_h), target_aspect), RInt(img_h)>>
        ELSE <<RInt(img_w), RDiv(RInt(img_w), target_aspect)>>

\* Step 3: a larger zoom shows less of the source.
ApplyZoomMul(base, zoom) == RMul(base, zoom)

ApplyZoom(base, zoom) == RDiv(base, zoom)

\* Step 5 on one axis: lo/hi are left/right (or top/bottom), extent is img_w
\* (or img_h).  Returns <<lo, hi>>.
ClampAxisShrink(lo, hi, visible, extent) ==
    IF RLe(visible, extent)
    THEN <<IF RLt(lo, R0) THEN R0 ELSE lo, IF RLt(extent, hi) THEN extent ELSE hi>>
    ELSE LET offset == RDiv(RSub(visible, extent), RTwo)
         IN  <<RNeg(offset), RAdd(extent, offset)>>

ClampAxisFit(lo, hi, visible, extent) ==
    IF RLe(visible, extent)
    THEN LET a == IF RLt(lo, R0) THEN <<R0, visible>> ELSE <<lo, hi>>
         IN  IF RLt(extent, a[2]) THEN <<RSub(extent, visible), extent>> ELSE a
    ELSE <<R0, extent>>

ClampAxisNoRecenter(lo, hi, visible, extent) ==
    IF RLe(visible, extent)
    THEN LET a == IF RLt(lo, R0) THEN <<R0, visible>> ELSE <<lo, hi>>
         IN  IF RLt(extent, a[2]) THEN <<RSub(extent, visible), extent>> ELSE a
    ELSE <<lo, hi>>

ClampAxis(lo, hi, visible, extent) ==
    IF RLe(visible, extent)
    THEN LET a == IF RLt(lo, R0) THEN <<R0, visible>> ELSE <<lo, hi>>
         IN  IF RLt(extent, a[2]) THEN <<RSub(extent, visible), extent>> ELSE a
    ELSE LET offset == RDiv(RSub(visible, extent), RTwo)
         IN  <<RNeg(offset), RAdd(extent, offset)>>

VisibleSize(img_w, img_h, target_w, target_h, config) ==
    LET base == BaseVisible(img_w, img_h, target_w, target_h)
    IN  <<ApplyZoom(base[1], config.zoom), ApplyZoom(base[2], config.zoom)>>

\* As CropBox, with the center taken in target pixels instead of source pixels.
CropBoxTargetCenter(img_w, img_h, target_w, target_h, config) ==
    LET vis == VisibleSize(img_w, img_h, target_w, target_h, config)
        visible_w == vis[1]
        visible_h == vis[2]
        center_x_px == RMul(RInt(target_w), config.center_x)
        center_y_px == RMul(RInt(target_h), config.center_y)
        left == RSub(center_x_px, RDiv(visible_w, RTwo))
        top == RSub(center_y_px, RDiv(visible_h, RTwo))
        right == RAdd(left, visible_w)
        bottom == RAdd(top, visible_h)
        xs == ClampAxis(left, right, visible_w, RInt(img_w))
        ys == ClampAxis(top, bottom, visible_h, RInt(img_h))
    IN  [left |-> xs[1], top |-> ys[1], right |-> xs[2], bottom |-> ys[2]]

CropBox(img_w, img_h, target_w, target_h, config) ==
    LET vis == VisibleSize(img_w, img_h, target_w, target_h, config)
        visible_w == vis[1]
        visible_h == vis[2]
        center_x_px == RMul(RInt(img_w), config.center_x)
        center_y_px == RMul(RInt(img_h), config.center_y)
        left == RSub(center_x_px, RDiv(visible_w, RTwo))
        top == RSub(center_y_px, RDiv(visible_h, RTwo))
        right == RAdd(left, visible_w)
        bottom == RAdd(top, visible_h)
        xs == ClampAxis(left, right, visible_w, RInt(img_w))
        ys == ClampAxis(top, bottom, visible_h, RInt(img_h))
    IN  [left |-> xs[1], top |-> ys[1], right |-> xs[2], bottom |-> ys[2]]

NoBox == [left |-> R0, top |-> R0, right |-> R0, bottom |-> R0]

(***************************************************************************)
(* Inputs of the crop solver.                                              *)
(***************************************************************************)
Dims == 1..MaxDim
Centers == {Rat(k, 2 * CenterSteps) : k \in 0..(2 * CenterSteps)}
Zooms == {Rat(1, 10), Rat(1, 2), Rat(19, 20), RInt(1), Rat(21, 20), RInt(2), RInt(5)}
Configs == [center_x : Centers, center_y : Centers, zoom : Zooms]

\* The collage variables while no generate_collage call is modelled.
CollageIdle ==
    /\ image_paths = <<>>
    /\ spacing = 0
    /\ slot_configs = [none |-> TRUE, list |-> <<>>]
    /\ canvas = <<>>
    /\ result = "pending"

NoWeekConfig == [has |-> FALSE, spacing |-> 0, slots |-> <<>>]

\* temp_collages before anything was written.
NoFiles == [t \in 0..MaxClock |-> "absent"]
NoCall == [made |-> FALSE, given |-> <<>>, canvas |-> <<>>, result |-> "pending"]

\* A readable source folder, a writable output folder, nothing written yet.
IoIdle ==
    /\ unreadable = {}
    /\ disk = "ok"
    /\ clock = 1
    /\ files = NoFiles
    /\ opened = <<>>
    /\ out_name = 0
    /\ calls = 0
    /\ first_call = NoCall

NoEvent == [kind |-> "none", modifier |-> FALSE, week |-> 0]

\* state['drag_source']: None, 'source', or a week number (1, 2, ...).
NoSource == -1
FromSource == 0
NoSnapshot == [config |-> <<>>, data |-> <<>>]

\* editor_state as constructed; index 0 stands for None, slots count from 1.
EditorInitial ==
    [week_num |-> 0, images |-> <<>>, temp_configs |-> <<>>, spacing |-> 0,
     dragging_idx |-> 0, drag_start |-> <<0, 0>>, current_pan |-> <<>>]

\* The application state while only the compositor is modelled.
AppIdle ==
    /\ weeks_originals = <<>>
    /\ weeks_collage_config = <<>>
    /\ weeks_data = <<>>
    /\ editor_state = EditorInitial
    /\ dialog_open = FALSE
    /\ events = 0
    /\ wheels = 0
    /\ preview_slots = <<>>
    /\ last_event = NoEvent
    /\ at_open = NoSnapshot
    /\ images = <<>>
    /\ dragged_image = "None"
    /\ drag_source = NoSource

InitCrop ==
    /\ pc = "call"
    /\ CollageIdle
    /\ IoIdle
    /\ AppIdle
    /\ crop_in \in [img_w : Dims, img_h : Dims, target_w : Dims, target_h : Dims,
                    config : Configs]
    /\ box = NoBox

\* One call of process_image_for_slot on the chosen arguments.
ProcessImageForSlot ==
    /\ pc = "call"
    /\ box' = CropBox(crop_in.img_w, crop_in.img_h, crop_in.target_w,
                      crop_in.target_h, crop_in.config)
    /\ pc' = "cropped"
    /\ UNCHANGED <<crop_in, collageVars, weekVars, editorVars, ioVars,
                   sessionVars, dragVars>>

NextCrop == ProcessImageForSlot

SpecCrop == InitCrop /\ [][NextCrop]_vars

(***************************************************************************)
(* generate_collage: layout, per-slot crop and paste.                      *)
(***************************************************************************)
W == 1600
H == 1200
MaxSpacing == 50     \* the editor's spacing slider ranges over 0..50
SliderValues == {0, 1, 20, MaxSpacing}

Images == {"square", "wide", "tall", "pano"}
ComposedImages == {"square", "tall"}

\* temp_collages/collage_<timestamp>.jpg
CollagePath(t) == "collage_" \o ToString(t)
IsCollage(p) == \E t \in 0..MaxClock : p = CollagePath(t)

\* img.size of each source image; a collage is W x H.
ImageSize(p) ==
    CASE p = "square" -> <<1000, 1000>>
      [] p = "wide" -> <<40, 30>>
      [] p = "pano" -> <<60, 20>>
      [] IsCollage(p) -> <<W, H>>
      [] OTHER -> <<30, 40>>

Min(a, b) == IF a < b THEN a ELSE b
Contains(seq, p) == \E i \in DOMAIN seq : seq[i] = p

Rect(x, y, w, h) == [x |-> x, y |-> y, w |-> w, h |-> h]

\* The slot rectangles (paste position, target size) in paste order.
SlotRectsEqualRows(qty, sp) ==
    IF qty = 2 THEN
        LET w_slot == (W - sp) \div 2
        IN  <<Rect(0, 0, w_slot, H), Rect(w_slot + sp, 0, w_slot, H)>>
    ELSE IF qty = 3 THEN
        LET w_left == (W - sp) \div 2
            x_right == w_left + sp
            w_right == W - x_right
            h_top == (H - sp) \div 2
        IN  <<Rect(0, 0, w_left, H),
              Rect(x_right, 0, w_right, h_top),
              Rect(x_right, h_top + sp, w_right, h_top)>>
    ELSE IF qty >= 4 THEN
        LET w_half == (W - sp) \div 2
            h_half == (H - sp) \div 2
        IN  <<Rect(0, 0, w_half, h_half), Rect(w_half + sp, 0, w_half, h_half),
              Rect(0, h_half + sp, w_half, h_half),
              Rect(w_half + sp, h_half + sp, w_half, h_half)>>
    ELSE <<Rect(0, 0, W, H)>>

\* Slots that are sp too wide and too high.
SlotRectsOverlapping(qty, sp) ==
    IF qty = 2 THEN
        LET w_slot == (W + sp) \div 2
        IN  <<Rect(0, 0, w_slot, H), Rect(W - w_slot, 0, w_slot, H)>>
    ELSE IF qty = 3 THEN
        LET w_left == (W + sp) \div 2
            h_top == (H + sp) \div 2
        IN  <<Rect(0, 0, w_left, H),
              Rect(W - w_left, 0, w_left, h_top),
              Rect(W - w_left, H - h_top, w_left, h_top)>>
    ELSE IF qty >= 4 THEN
        LET w_half == (W + sp) \div 2
            h_half == (H + sp) \div 2
        IN  <<Rect(0, 0, w_half, h_half), Rect(W - w_half, 0, w_half, h_half),
              Rect(0, H - h_half, w_half, h_half),
              Rect(W - w_half, H - h_half, w_half, h_half)>>
    ELSE <<Rect(0, 0, W, H)>>

SlotRects(qty, sp) ==
    IF qty = 2 THEN
        LET w_slot == (W - sp) \div 2
        IN  <<Rect(0, 0, w_slot, H), Rect(w_slot + sp, 0, w_slot, H)>>
    ELSE IF qty = 3 THEN
        LET w_left == (W - sp) \div 2
            x_right == w_left + sp
            w_right == W - x_right
            h_top == (H - sp) \div 2
            h_bot == H - sp - h_top
        IN  <<Rect(0, 0, w_left, H),
              Rect(x_right, 0, w_right, h_top),
              Rect(x_right, h_top + sp, w_right, h_bot)>>
    ELSE IF qty >= 4 THEN
        LET w_half == (W - sp) \div 2
            h_half == (H - sp) \div 2
        IN  <<Rect(0, 0, w_half, h_half), Rect(w_half + sp, 0, w_half, h_half),
              Rect(0, h_half + sp, w_half, h_half),
              Rect(w_half + sp, h_half + sp, w_half, h_half)>>
    ELSE <<Rect(0, 0, W, H)>>

\* slot_configs after the defaults are filled in for qty slots.
PaddedConfigs(given, qty) ==
    IF given.none
    THEN [i \in 1..qty |-> DefaultConfig]
    ELSE [i \in 1..(IF Len(given.list) < qty THEN qty ELSE Len(given.list)) |->
             IF i <= Len(given.list) THEN given.list[i] ELSE DefaultConfig]

\* One paste: the image of process_paths[i], cropped for slot i.
PasteInto(rect, src, config) ==
    [x |-> rect.x, y |-> rect.y, w |-> rect.w, h |-> rect.h, src |-> src,
     box |-> CropBox(ImageSize(src)[1], ImageSize(src)[2], rect.w, rect.h, config)]

RECURSIVE SeqsUpTo(_, _)
SeqsUpTo(S, n) ==
    IF n = 0 THEN {<<>>}
    ELSE LET shorter == SeqsUpTo(S, n - 1)
         IN  shorter \cup {Append(q, e) : q \in {t \in shorter : Len(t) = n - 1}, e \in S}

EdgeConfig == [center_x |-> R0, center_y |-> RInt(1), zoom |-> RInt(2)]

GivenConfigs ==
    {[none |-> TRUE, list |-> <<>>],
     [none |-> FALSE, list |-> <<>>],
     [none |-> FALSE, list |-> <<EdgeConfig>>]}

Init ==
    /\ pc = "start"
    /\ crop_in = [img_w |-> 1, img_h |-> 1, target_w |-> 1, target_h |-> 1,
                  config |-> DefaultConfig]
    /\ box = NoBox
    /\ image_paths \in SeqsUpTo(ComposedImages, MaxImages)
    /\ spacing \in 0..MaxSpacing
    /\ slot_configs \in GivenConfigs
    /\ canvas = <<>>
    /\ result = "pending"
    /\ IoIdle
    /\ AppIdle

\* generate_collage up to the end of its try block, as a function of its
\* arguments: the caller's config list after the call, the pastes made, the
\* images opened, and "out_path" when every slot was pasted.  A slot raises
\* when Image.open cannot decode its file or when its zoom is 0 (division by
\* zero, after the file was opened); the except branch then returns
\* image_paths[0].
Compose(paths, sp, given) ==
    IF paths = <<>>
    THEN [configs |-> given, canvas |-> <<>>, opened |-> <<>>, result |-> "None"]
    ELSE LET process_paths == SubSeq(paths, 1, Min(4, Len(paths)))
             qty == Len(process_paths)
             configs == PaddedConfigs(given, qty)
             rects == SlotRects(qty, sp)
             failing == {i \in 1..qty : \/ process_paths[i] \in unreadable
                                        \/ configs[i].zoom.n = 0}
             k == IF failing = {} THEN qty + 1
                  ELSE CHOOSE i \in failing : \A j \in failing : i <= j
             n_opened == IF k <= qty /\ process_paths[k] \notin unreadable
                         THEN k ELSE k - 1
         IN  [configs |-> IF given.none THEN given
                          ELSE [given EXCEPT !.list = configs],
              canvas |-> [i \in 1..(k - 1) |->
                             PasteInto(rects[i], process_paths[i], configs[i])],
              opened |-> SubSeq(process_paths, 1, n_opened),
              result |-> IF k <= qty THEN paths[1] ELSE "out_path"]

\* The save step of generate_collage on what the try block produced:
\* canvas.save writes straight to temp_collages/collage_<clock>.jpg.  On a
\* full disk the write stops part way and the exception leaves the function;
\* when the folder cannot be written nothing is created.
SaveCanvas(out) ==
    LET base == [configs |-> out.configs, canvas |-> out.canvas,
                 opened |-> out.opened, result |-> out.result,
                 out_name |-> 0, files |-> files]
    IN  IF out.result # "out_path" THEN base
        ELSE IF disk = "ok"
        THEN [base EXCEPT !.out_name = clock,
                          !.files = [files EXCEPT ![clock] = "complete"]]
        ELSE IF disk = "full"
        THEN [base EXCEPT !.result = "raised",
                          !.files = [files EXCEPT ![clock] = "partial"]]
        ELSE [base EXCEPT !.result = "raised"]

GenerateOnOldCanvas(paths, sp, given) ==
    SaveCanvas([Compose(paths, sp, given) EXCEPT !.canvas = canvas \o @])

\* generate_collage, from its arguments to what it returns and writes.
Generate(paths, sp, given) == SaveCanvas(Compose(paths, sp, given))

\* What the caller of generate_collage receives.
ReturnedPath(out) ==
    IF out.result = "out_path" THEN CollagePath(out.out_name) ELSE out.result

\* The state a call of generate_collage leaves behind.
CollageReturns(out) ==
    /\ slot_configs' = out.configs
    /\ canvas' = out.canvas
    /\ result' = out.result
    /\ opened' = out.opened
    /\ out_name' = out.out_name
    /\ files' = out.files

\* One call of generate_collage, from its arguments to its return.
GenerateCollage ==
    /\ pc = "start"
    /\ pc' = "returned"
    /\ CollageReturns(Generate(image_paths, spacing, slot_configs))
    /\ first_call' = IF calls = 0
                     THEN [made |-> TRUE, given |-> slot_configs,
                           canvas |-> canvas', result |-> result']
                     ELSE first_call
    /\ calls' = calls + 1
    /\ UNCHANGED <<cropVars, image_paths, spacing, weekVars, editorVars,
                   unreadable, disk, clock, sessionVars, dragVars>>

Next == GenerateCollage

Spec == Init /\ [][Next]_vars

(***************************************************************************)
(* generate_collage with unreadable files, invalid configs, a failing disk *)
(* and repeated calls.                                                     *)
(***************************************************************************)
ZeroZoom == [center_x |-> RHalf, center_y |-> RHalf, zoom |-> R0]
WideZoom == [center_x |-> RHalf, center_y |-> RHalf, zoom |-> RInt(7)]
FailingGivenConfigs ==
    GivenConfigs \cup {[none |-> FALSE, list |-> <<DefaultConfig, ZeroZoom>>],
                       [none |-> FALSE, list |-> <<WideZoom>>]}
SmallImages == {"wide", "tall"}
ComposeSpacings == {0, 20}

InitCompose ==
    /\ pc = "start"
    /\ crop_in = [img_w |-> 1, img_h |-> 1, target_w |-> 1, target_h |-> 1,
                  config |-> DefaultConfig]
    /\ box = NoBox
    /\ image_paths \in SeqsUpTo(SmallImages, MaxComposed)
    /\ spacing \in ComposeSpacings
    /\ slot_configs \in FailingGivenConfigs
    /\ canvas = <<>>
    /\ result = "pending"
    /\ unreadable \in {{}, {"tall"}}
    /\ disk \in {"ok", "full", "denied"}
    /\ clock = 1
    /\ files = NoFiles
    /\ opened = <<>>
    /\ out_name = 0
    /\ calls = 0
    /\ first_call = NoCall
    /\ AppIdle

\* A second passes.
Tick ==
    /\ clock < MaxClock
    /\ clock' = clock + 1
    /\ UNCHANGED <<pc, cropVars, collageVars, weekVars, editorVars, unreadable,
                   disk, files, opened, out_name, calls, first_call,
                   sessionVars, dragVars>>

\* The caller calls generate_collage again on the same images and spacing,
\* passing the list object it passed before (which the earlier call padded)
\* or a fresh list equal to what it passed first.
CallAgain ==
    /\ pc = "returned"
    /\ calls < MaxCalls
    /\ pc' = "start"
    /\ slot_configs' \in {slot_configs, first_call.given}
    /\ UNCHANGED <<cropVars, image_paths, spacing, canvas, result, weekVars,
                   editorVars, ioVars, sessionVars, dragVars>>

NextCompose ==
    \/ GenerateCollage
    \/ Tick
    \/ CallAgain

SpecCompose == InitCompose /\ [][NextCompose]_vars

(***************************************************************************)
(* generate_collage with the slots processed in any order: each step is    *)
(* the decode, crop and paste of one slot not pasted yet.                  *)
(***************************************************************************)
ProcessPathsOf(paths) == SubSeq(paths, 1, Min(4, Len(paths)))

InitAnyOrder ==
    /\ pc = "pasting"
    /\ crop_in = [img_w |-> 1, img_h |-> 1, target_w |-> 1, target_h |-> 1,
                  config |-> DefaultConfig]
    /\ box = NoBox
    /\ image_paths \in SeqsUpTo(ComposedImages, MaxImages)
    /\ spacing \in SliderValues
    /\ slot_configs \in GivenConfigs
    /\ canvas = <<>>
    /\ result = "pending"
    /\ IoIdle
    /\ AppIdle

\* Slot i was pasted: a paste sits at its position.
IsPasted(i) ==
    LET rect == SlotRects(Len(ProcessPathsOf(image_paths)), spacing)[i]
    IN  \E k \in DOMAIN canvas : canvas[k].x = rect.x /\ canvas[k].y = rect.y

AllPasted == \A i \in DOMAIN ProcessPathsOf(image_paths) : IsPasted(i)

\* process_image_for_slot and canvas.paste for slot i.
PasteSlot(i) ==
    /\ pc = "pasting"
    /\ i \in DOMAIN ProcessPathsOf(image_paths)
    /\ ~IsPasted(i)
    /\ LET process_paths == ProcessPathsOf(image_paths)
           qty == Len(process_paths)
       IN  /\ canvas' = Append(canvas,
                               PasteInto(SlotRects(qty, spacing)[i],
                                         process_paths[i],
                                         PaddedConfigs(slot_configs, qty)[i]))
           /\ opened' = Append(opened, process_paths[i])
    /\ UNCHANGED <<pc, cropVars, image_paths, spacing, slot_configs, result,
                   weekVars, editorVars, unreadable, disk, clock, files,
                   out_name, calls, first_call, sessionVars, dragVars>>

\* The canvas is saved and the path returned once every slot was pasted.
SavePasted ==
    /\ pc = "pasting"
    /\ AllPasted
    /\ pc' = "returned"
    /\ CollageReturns(SaveCanvas([Compose(image_paths, spacing, slot_configs)
                                     EXCEPT !.canvas = canvas,
                                            !.opened = opened]))
    /\ calls' = calls + 1
    /\ UNCHANGED <<cropVars, image_paths, spacing, weekVars, editorVars,
                   unreadable, disk, clock, first_call, sessionVars, dragVars>>

NextAnyOrder ==
    \/ \E i \in 1..4 : PasteSlot(i)
    \/ SavePasted

SpecAnyOrder == InitAnyOrder /\ [][NextAnyOrder]_vars

(***************************************************************************)
(* The collage editor: open, pan, zoom, spacing, save, cancel.             *)
(***************************************************************************)
Weeks == {1, 2}
\* (client_x, client_y) of the mouse events.
MousePoints == {<<0, 0>>, <<1, 1>>, <<0, 12>>}

\* calculate_pan: the pan shown for a committed center.
CalculatePan(img, cfg) ==
    <<RMul(RSub(RHalf, cfg.center_x), RInt(ImageSize(img)[1])),
      RMul(RSub(RHalf, cfg.center_y), RInt(ImageSize(img)[2]))>>

\* save_collage_edits: a preview pan scaled to full resolution and turned
\* into a normalized center along one axis.
CommitCenterUnscaled(t, extent) == RSub(RHalf, RDiv(t, RInt(extent)))

CommitCenter(t, extent) == RSub(RHalf, RDiv(RMul(t, RTwo), RInt(extent)))

FinalConfig(img, pan, config_data) ==
    [center_x |-> CommitCenter(pan[1], ImageSize(img)[1]),
     center_y |-> CommitCenter(pan[2], ImageSize(img)[2]),
     zoom |-> config_data.zoom]

\* handle_wheel: one zoom step, clamped.
RMax(a, b) == IF RLt(a, b) THEN b ELSE a
RMin(a, b) == IF RLt(b, a) THEN b ELSE a
WheelZoomUnclamped(current_zoom, delta_y) ==
    RMul(current_zoom, IF delta_y > 0 THEN Rat(95, 100) ELSE Rat(105, 100))

WheelZoom(current_zoom, delta_y) ==
    LET factor == IF delta_y > 0 THEN Rat(95, 100) ELSE Rat(105, 100)
    IN  RMax(Rat(1, 10), RMin(RInt(5), RMul(current_zoom, factor)))

\* render_editor_layout: the preview's slot rectangles, in CSS pixels.
W_preview == 800
H_preview == 600
PreviewRectsFullSpacing(qty, spacing_value) ==
    LET sp == RInt(spacing_value)
        w == RDiv(RSub(RInt(W_preview), sp), RTwo)
        h == RDiv(RSub(RInt(H_preview), sp), RTwo)
        full_h == RInt(H_preview)
    IN  IF qty = 2 THEN
            <<Rect(R0, R0, w, full_h), Rect(RAdd(w, sp), R0, w, full_h)>>
        ELSE IF qty = 3 THEN
            <<Rect(R0, R0, w, full_h),
              Rect(RAdd(w, sp), R0, w, h),
              Rect(RAdd(w, sp), RAdd(h, sp), w, h)>>
        ELSE IF qty >= 4 THEN
            <<Rect(R0, R0, w, h), Rect(RAdd(w, sp), R0, w, h),
              Rect(R0, RAdd(h, sp), w, h),
              Rect(RAdd(w, sp), RAdd(h, sp), w, h)>>
        ELSE <<>>

PreviewRects(qty, spacing_value) ==
    LET sp == RDiv(RInt(spacing_value), RTwo)
        w == RDiv(RSub(RInt(W_preview), sp), RTwo)
        h == RDiv(RSub(RInt(H_preview), sp), RTwo)
        full_h == RInt(H_preview)
    IN  IF qty = 2 THEN
            <<Rect(R0, R0, w, full_h), Rect(RAdd(w, sp), R0, w, full_h)>>
        ELSE IF qty = 3 THEN
            <<Rect(R0, R0, w, full_h),
              Rect(RAdd(w, sp), R0, w, h),
              Rect(RAdd(w, sp), RAdd(h, sp), w, h)>>
        ELSE IF qty >= 4 THEN
            <<Rect(R0, R0, w, h), Rect(RAdd(w, sp), R0, w, h),
              Rect(R0, RAdd(h, sp), w, h),
              Rect(RAdd(w, sp), RAdd(h, sp), w, h)>>
        ELSE <<>>

Event(kind, modifier) == [kind |-> kind, modifier |-> modifier, week |-> 0]
WeekEvent(kind, week) == [kind |-> kind, modifier |-> FALSE, week |-> week]

\* What an earlier session committed for a week showing these images: the
\* first slot panned one pixel right at the largest zoom, the second panned
\* one pixel up at the smallest.
EarlierCommit(originals) ==
    [has |-> TRUE, spacing |-> 20,
     slots |-> [i \in 1..Len(originals) |->
                  IF i = 1
                  THEN FinalConfig(originals[1], <<RInt(1), R0>>,
                                   [zoom |-> RInt(5)])
                  ELSE IF i = 2
                  THEN FinalConfig(originals[2], <<R0, RInt(-1)>>,
                                   [zoom |-> Rat(1, 10)])
                  ELSE DefaultConfig]]

InitEditor ==
    /\ pc = "app"
    /\ crop_in = [img_w |-> 1, img_h |-> 1, target_w |-> 1, target_h |-> 1,
                  config |-> DefaultConfig]
    /\ box = NoBox
    /\ CollageIdle
    /\ unreadable = {}
    /\ disk = "ok"
    /\ clock = 1
    /\ files = [NoFiles EXCEPT ![0] = "complete"]
    /\ opened = <<>>
    /\ out_name = 0
    /\ calls = 0
    /\ first_call = NoCall
    /\ \E o \in {<<"wide", "tall">>, <<"tall", "wide", "pano">>} :
          /\ weeks_originals = [w \in Weeks |-> IF w = 1 THEN o ELSE <<"square">>]
          /\ images = IF Contains(o, "pano") THEN <<>> ELSE <<"pano">>
          /\ weeks_collage_config =
                 [w \in Weeks |-> IF w = 1 /\ Len(o) = 2 THEN EarlierCommit(o)
                                  ELSE NoWeekConfig]
    /\ weeks_data = [w \in Weeks |-> IF w = 1 THEN CollagePath(0) ELSE "square"]
    /\ editor_state = EditorInitial
    /\ dialog_open = FALSE
    /\ events = 0
    /\ wheels = 0
    /\ preview_slots = <<>>
    /\ last_event = NoEvent
    /\ at_open = NoSnapshot
    /\ dragged_image = "None"
    /\ drag_source = NoSource

Handled == events < MaxEvents /\ events' = events + 1

\* open_collage_editor(week_num), from the "Adjust Collage" menu item.
OpenCollageEditor(week_num) ==
    /\ ~dialog_open
    /\ Handled
    /\ LET originals == weeks_originals[week_num]
           config == weeks_collage_config[week_num]
           existing_slots == config.slots
           cfgs == [i \in 1..Len(originals) |->
                       IF i <= Len(existing_slots) THEN existing_slots[i]
                       ELSE DefaultConfig]
       IN  IF Len(originals) < 2
           THEN UNCHANGED <<editor_state, dialog_open, preview_slots, at_open>>
           ELSE /\ preview_slots' =
                      PreviewRects(Len(originals),
                                   IF config.has THEN config.spacing ELSE 0)
                /\ at_open' = [config |-> weeks_collage_config,
                               data |-> weeks_data]
                /\ editor_state' =
                      [editor_state EXCEPT
                          !.week_num = week_num,
                          !.images = originals,
                          !.spacing = IF config.has THEN config.spacing ELSE 0,
                          !.temp_configs = cfgs,
                          !.current_pan =
                              [i \in 1..Len(originals) |->
                                  CalculatePan(originals[i], cfgs[i])]]
                /\ dialog_open' = TRUE
    /\ last_event' = Event("open", FALSE)
    /\ UNCHANGED <<pc, cropVars, collageVars, weekVars, wheels, ioVars, dragVars>>

\* The slots render_editor_layout creates for the session's images.
EditorSlots == 1..Min(4, Len(editor_state.images))

HandleMousedown(i, client_x, client_y) ==
    /\ dialog_open
    /\ i \in EditorSlots
    /\ Handled
    /\ editor_state' = [editor_state EXCEPT !.dragging_idx = i,
                                            !.drag_start = <<client_x, client_y>>]
    /\ last_event' = Event("mousedown", FALSE)
    /\ UNCHANGED <<pc, cropVars, collageVars, weekVars, dialog_open, wheels,
                   ioVars, preview_slots, at_open, dragVars>>

HandleMousemove(client_x, client_y) ==
    /\ dialog_open
    /\ Handled
    /\ LET i == editor_state.dragging_idx
           dx == client_x - editor_state.drag_start[1]
           dy == client_y - editor_state.drag_start[2]
           c_pan == editor_state.current_pan[i]
       IN  IF i # 0
           THEN editor_state' =
                    [editor_state EXCEPT
                        !.current_pan[i] = <<RAdd(c_pan[1], RInt(dx)),
                                             RAdd(c_pan[2], RInt(dy))>>,
                        !.drag_start = <<client_x, client_y>>]
           ELSE UNCHANGED editor_state
    /\ last_event' = Event("mousemove", FALSE)
    /\ UNCHANGED <<pc, cropVars, collageVars, weekVars, dialog_open, wheels,
                   ioVars, preview_slots, at_open, dragVars>>

\* Bound to both mouseup and mouseleave.
HandleMouseup ==
    /\ dialog_open
    /\ Handled
    /\ editor_state' = [editor_state EXCEPT !.dragging_idx = 0]
    /\ last_event' = Event("mouseup", FALSE)
    /\ UNCHANGED <<pc, cropVars, collageVars, weekVars, dialog_open, wheels,
                   ioVars, preview_slots, at_open, dragVars>>

HandleWheel(i, modifier, delta_y) ==
    /\ dialog_open
    /\ i \in EditorSlots
    /\ Handled
    /\ IF modifier
       THEN /\ wheels < MaxWheel
            /\ wheels' = wheels + 1
            /\ editor_state' =
                   [editor_state EXCEPT !.temp_configs[i].zoom =
                       WheelZoom(editor_state.temp_configs[i].zoom, delta_y)]
       ELSE UNCHANGED <<editor_state, wheels>>
    /\ last_event' = Event("wheel", modifier)
    /\ UNCHANGED <<pc, cropVars, collageVars, weekVars, dialog_open, ioVars,
                   preview_slots, at_open, dragVars>>

UpdateSpacingCommitted(value) ==
    /\ dialog_open
    /\ Handled
    /\ editor_state' = [editor_state EXCEPT !.spacing = value]
    /\ weeks_collage_config' =
           [weeks_collage_config EXCEPT ![editor_state.week_num].spacing = value]
    /\ preview_slots' = PreviewRects(Len(editor_state.images), value)
    /\ last_event' = Event("spacing", FALSE)
    /\ UNCHANGED <<pc, cropVars, collageVars, weeks_originals, weeks_data,
                   dialog_open, wheels, ioVars, at_open, dragVars>>

UpdateSpacing(value) ==
    /\ dialog_open
    /\ Handled
    /\ editor_state' = [editor_state EXCEPT !.spacing = value]
    /\ preview_slots' = PreviewRects(Len(editor_state.images), value)
    /\ last_event' = Event("spacing", FALSE)
    /\ UNCHANGED <<pc, cropVars, collageVars, weekVars, dialog_open, wheels,
                   ioVars, at_open, dragVars>>

\* save_collage_edits from "2. Update State" on: the config is stored, the
\* collage regenerated and shown.  When generate_collage raises, the handler
\* stops after the config was stored: weeks_data keeps its value and the
\* dialog stays open.
CommitEdits(w_num, out) ==
    /\ weeks_collage_config' =
           [weeks_collage_config EXCEPT ![w_num] =
               [has |-> TRUE, spacing |-> editor_state.spacing,
                slots |-> out.configs.list]]
    /\ CollageReturns(out)
    /\ IF out.result = "raised"
       THEN /\ UNCHANGED <<weeks_data, dialog_open>>
            /\ pc' = "save_raised"
       ELSE /\ weeks_data' = [weeks_data EXCEPT ![w_num] = ReturnedPath(out)]
            /\ dialog_open' = FALSE
            /\ pc' = "saved"

\* The Save button: commit the session and regenerate the collage.
SaveCollageEdits ==
    /\ dialog_open
    /\ Handled
    /\ image_paths' = editor_state.images
    /\ spacing' = editor_state.spacing
    /\ CommitEdits(editor_state.week_num,
                   Generate(editor_state.images, editor_state.spacing,
                            [none |-> FALSE,
                             list |-> [i \in 1..Len(editor_state.temp_configs) |->
                                         FinalConfig(editor_state.images[i],
                                                     editor_state.current_pan[i],
                                                     editor_state.temp_configs[i])]]))
    /\ last_event' = Event("save", FALSE)
    /\ UNCHANGED <<cropVars, weeks_originals, editor_state, wheels, unreadable,
                   disk, clock, calls, first_call, preview_slots, at_open,
                   dragVars>>

\* The Cancel button (editor_dialog.close).
CancelEdits ==
    /\ dialog_open
    /\ Handled
    /\ dialog_open' = FALSE
    /\ pc' = "cancelled"
    /\ last_event' = Event("cancel", FALSE)
    /\ UNCHANGED <<cropVars, collageVars, weekVars, editor_state, wheels,
                   ioVars, preview_slots, at_open, dragVars>>

NextEditor ==
    \/ \E w \in Weeks : OpenCollageEditor(w)
    \/ \E i \in 1..4, p \in MousePoints : HandleMousedown(i, p[1], p[2])
    \/ \E p \in MousePoints : HandleMousemove(p[1], p[2])
    \/ HandleMouseup
    \/ \E i \in 1..4, m \in BOOLEAN, d \in {-1, 1} : HandleWheel(i, m, d)
    \/ \E v \in SliderValues : UpdateSpacing(v)
    \/ SaveCollageEdits
    \/ CancelEdits

SpecEditor == InitEditor /\ [][NextEditor]_vars

(***************************************************************************)
(* The editor's preview layout on its own: render_editor_content for every *)
(* image count and slider value.                                           *)
(***************************************************************************)
WeekImages == <<"wide", "tall", "pano", "square">>

InitLayout ==
    /\ pc = "layout"
    /\ crop_in = [img_w |-> 1, img_h |-> 1, target_w |-> 1, target_h |-> 1,
                  config |-> DefaultConfig]
    /\ box = NoBox
    /\ CollageIdle
    /\ IoIdle
    /\ \E n \in 2..Len(WeekImages), s \in 0..MaxSpacing :
          LET originals == SubSeq(WeekImages, 1, n)
          IN  /\ weeks_originals = [w \in Weeks |-> IF w = 1 THEN originals ELSE <<>>]
              /\ editor_state =
                     [EditorInitial EXCEPT
                         !.week_num = 1,
                         !.images = originals,
                         !.spacing = s,
                         !.temp_configs = [i \in 1..n |-> DefaultConfig],
                         !.current_pan = [i \in 1..n |-> <<R0, R0>>]]
    /\ weeks_collage_config = [w \in Weeks |-> NoWeekConfig]
    /\ weeks_data = [w \in Weeks |-> IF w = 1 THEN CollagePath(0) ELSE "None"]
    /\ dialog_open = TRUE
    /\ events = 0
    /\ wheels = 0
    /\ preview_slots = <<>>
    /\ last_event = NoEvent
    /\ at_open = NoSnapshot
    /\ images = <<>>
    /\ dragged_image = "None"
    /\ drag_source = NoSource

\* render_editor_content.refresh(): the slots are laid out anew.
RenderEditorContent ==
    /\ pc = "layout"
    /\ dialog_open
    /\ pc' = "rendered"
    /\ preview_slots' = PreviewRects(Len(editor_state.images), editor_state.spacing)
    /\ UNCHANGED <<cropVars, collageVars, weekVars, editorVars, ioVars,
                   last_event, at_open, dragVars>>

NextLayout == RenderEditorContent

SpecLayout == InitLayout /\ [][NextLayout]_vars

(***************************************************************************)
(* The week grid and the source panel: drag, drop, reset, delete.  The     *)
(* editor dialog is modal, so these happen while it is closed.             *)
(***************************************************************************)
\* list.remove(p): the first occurrence goes.
Remove(seq, p) ==
    IF ~Contains(seq, p) THEN seq
    ELSE LET i == CHOOSE k \in DOMAIN seq :
                      seq[k] = p /\ \A j \in 1..(k - 1) : seq[j] # p
         IN  SubSeq(seq, 1, i - 1) \o SubSeq(seq, i + 1, Len(seq))

\* get_image_creation_date, as a rank: collages are newer than the photos.
DateRank(p) ==
    CASE p = "square" -> 1
      [] p = "tall" -> 2
      [] p = "wide" -> 3
      [] p = "pano" -> 4
      [] OTHER -> 5

\* append(p) followed by the stable sort by date, on a sorted list.
InsertByDate(seq, p) ==
    LET k == Cardinality({i \in DOMAIN seq : DateRank(seq[i]) <= DateRank(p)})
    IN  SubSeq(seq, 1, k) \o <<p>> \o SubSeq(seq, k + 1, Len(seq))

\* reset_cell's loop: every original not yet in the list is returned to it.
RECURSIVE ReturnAll(_, _)
ReturnAll(seq, originals) ==
    IF originals = <<>> THEN seq
    ELSE ReturnAll(IF Contains(seq, Head(originals)) THEN seq
                   ELSE InsertByDate(seq, Head(originals)),
                   Tail(originals))

OnDragStart(p) ==
    /\ ~dialog_open
    /\ Contains(images, p)
    /\ Handled
    /\ dragged_image' = p
    /\ drag_source' = FromSource
    /\ last_event' = WeekEvent("dragstart", 0)
    /\ UNCHANGED <<pc, cropVars, collageVars, weekVars, editor_state,
                   dialog_open, wheels, ioVars, preview_slots, at_open, images>>

OnDragStartAssigned(w) ==
    /\ ~dialog_open
    /\ weeks_data[w] # "None"
    /\ Handled
    /\ dragged_image' = weeks_data[w]
    /\ drag_source' = w
    /\ last_event' = WeekEvent("dragstart", w)
    /\ UNCHANGED <<pc, cropVars, collageVars, weekVars, editor_state,
                   dialog_open, wheels, ioVars, preview_slots, at_open, images>>

\* on_drop of a week card from "3. Add to New Week" on, for the originals
\* the week holds after the drop and the collage made of them.
AssignToWeek(w, data1, current_originals, out) ==
    IF Len(current_originals) = 1
    THEN /\ weeks_data' = [data1 EXCEPT ![w] = current_originals[1]]
         /\ dragged_image' = "None"
         /\ drag_source' = NoSource
         /\ UNCHANGED <<pc, collageVars, weeks_collage_config, files, opened,
                        out_name>>
    ELSE /\ weeks_collage_config' =
                [weeks_collage_config EXCEPT ![w] = NoWeekConfig]
         /\ image_paths' = current_originals
         /\ spacing' = 0
         /\ CollageReturns(out)
         /\ IF out.result = "raised"
            THEN /\ weeks_data' = data1
                 /\ pc' = "drop_raised"
                 /\ UNCHANGED <<dragged_image, drag_source>>
            ELSE /\ weeks_data' = [data1 EXCEPT ![w] = ReturnedPath(out)]
                 /\ pc' = "dropped"
                 /\ dragged_image' = "None"
                 /\ drag_source' = NoSource

\* on_drop of the week card w.
OnDropWeek(w) ==
    /\ ~dialog_open
    /\ Handled
    /\ last_event' = WeekEvent("drop_week", w)
    /\ LET dragged == dragged_image
           others == {k \in Weeks : k # w /\ weeks_data[k] = dragged}
           data1 == [k \in Weeks |->
                        IF k \in others THEN "None" ELSE weeks_data[k]]
           orig1 == [k \in Weeks |->
                        IF k \in others THEN Remove(weeks_originals[k], dragged)
                        ELSE weeks_originals[k]]
           current_originals == IF Contains(orig1[w], dragged) THEN orig1[w]
                                ELSE Append(orig1[w], dragged)
       IN  IF dragged = "None"
           THEN UNCHANGED <<pc, collageVars, weekVars, files, opened, out_name,
                            dragVars>>
           ELSE /\ images' = Remove(images, dragged)
                /\ weeks_originals' = [orig1 EXCEPT ![w] = current_originals]
                /\ AssignToWeek(w, data1, current_originals,
                                Generate(current_originals, 0,
                                         [none |-> TRUE, list |-> <<>>]))
    /\ UNCHANGED <<cropVars, editor_state, dialog_open, wheels, unreadable, disk,
                   clock, calls, first_call, preview_slots, at_open>>

OnDropSourceResetting ==
    /\ ~dialog_open
    /\ Handled
    /\ last_event' = WeekEvent("drop_source", 0)
    /\ IF dragged_image # "None" /\ drag_source # FromSource
       THEN /\ images' = IF Contains(images, dragged_image) THEN images
                         ELSE InsertByDate(images, dragged_image)
            /\ weeks_data' = IF drag_source \in Weeks
                             THEN [weeks_data EXCEPT ![drag_source] = "None"]
                             ELSE weeks_data
            /\ weeks_collage_config' =
                   IF drag_source \in Weeks
                   THEN [weeks_collage_config EXCEPT ![drag_source] = NoWeekConfig]
                   ELSE weeks_collage_config
            /\ dragged_image' = "None"
            /\ drag_source' = NoSource
       ELSE UNCHANGED <<weeks_data, weeks_collage_config, dragVars>>
    /\ UNCHANGED <<pc, cropVars, collageVars, weeks_originals, editor_state,
                   dialog_open, wheels, ioVars, preview_slots, at_open>>

\* on_drop of the source panel.
OnDropSource ==
    /\ ~dialog_open
    /\ Handled
    /\ last_event' = WeekEvent("drop_source", 0)
    /\ IF dragged_image # "None" /\ drag_source # FromSource
       THEN /\ images' = IF Contains(images, dragged_image) THEN images
                         ELSE InsertByDate(images, dragged_image)
            /\ weeks_data' = IF drag_source \in Weeks
                             THEN [weeks_data EXCEPT ![drag_source] = "None"]
                             ELSE weeks_data
            /\ dragged_image' = "None"
            /\ drag_source' = NoSource
       ELSE UNCHANGED <<weeks_data, dragVars>>
    /\ UNCHANGED <<pc, cropVars, collageVars, weeks_originals,
                   weeks_collage_config, editor_state, dialog_open, wheels,
                   ioVars, preview_slots, at_open>>

\* reset_cell(week_num), from the cell's context menu.
ResetCell(week_num) ==
    /\ ~dialog_open
    /\ weeks_data[week_num] # "None"
    /\ Handled
    /\ last_event' = WeekEvent("reset", week_num)
    /\ images' = ReturnAll(images, weeks_originals[week_num])
    /\ weeks_data' = [weeks_data EXCEPT ![week_num] = "None"]
    /\ weeks_originals' = [weeks_originals EXCEPT ![week_num] = <<>>]
    /\ weeks_collage_config' =
           [weeks_collage_config EXCEPT ![week_num] = NoWeekConfig]
    /\ UNCHANGED <<pc, cropVars, collageVars, editor_state, dialog_open, wheels,
                   ioVars, preview_slots, at_open, dragged_image, drag_source>>

\* remove_image_from_source(img_path), the Delete menu item of a source card.
RemoveImageFromSource(img_path) ==
    /\ ~dialog_open
    /\ Contains(images, img_path)
    /\ Handled
    /\ last_event' = WeekEvent("delete", 0)
    /\ images' = Remove(images, img_path)
    /\ IF dragged_image = img_path
       THEN dragged_image' = "None" /\ drag_source' = NoSource
       ELSE UNCHANGED <<dragged_image, drag_source>>
    /\ UNCHANGED <<pc, cropVars, collageVars, weekVars, editor_state,
                   dialog_open, wheels, ioVars, preview_slots, at_open>>

Paths == Images \cup {CollagePath(t) : t \in 0..MaxClock}

NextApp ==
    \/ \E p \in Paths : OnDragStart(p)
    \/ \E w \in Weeks : OnDragStartAssigned(w)
    \/ \E w \in Weeks : OnDropWeek(w)
    \/ OnDropSource
    \/ \E w \in Weeks : ResetCell(w)
    \/ \E p \in Paths : RemoveImageFromSource(p)
    \/ Tick
    \/ \E w \in Weeks : OpenCollageEditor(w)
    \/ \E p \in {<<0, 0>>, <<1, 1>>} : HandleMousedown(1, p[1], p[2])
    \/ \E p \in {<<0, 0>>, <<1, 1>>} : HandleMousemove(p[1], p[2])
    \/ HandleMouseup
    \/ \E m \in BOOLEAN : HandleWheel(1, m, 1)
    \/ UpdateSpacing(1)
    \/ SaveCollageEdits
    \/ CancelEdits

SpecApp == InitEditor /\ [][NextApp]_vars

\* The grid and the source panel on their own: drag start, drop on a week,
\* drop on the source panel, reset cell.
NextGrid ==
    \/ \E p \in Paths : OnDragStart(p)
    \/ \E w \in Weeks : OnDragStartAssigned(w)
    \/ \E w \in Weeks : OnDropWeek(w)
    \/ OnDropSource
    \/ \E w \in Weeks : ResetCell(w)

SpecGrid == InitEditor /\ [][NextGrid]_vars

(***************************************************************************)
(* Properties of the layout and of whole compositions (checked under Spec).*)
(***************************************************************************)
Composed == pc = "returned" /\ result = "out_path"
Slots == 1..Len(canvas)
RightOf(s) == s.x + s.w
BottomOf(s) == s.y + s.h
Disjoint(a, b) ==
    \/ RightOf(a) <= b.x \/ RightOf(b) <= a.x
    \/ BottomOf(a) <= b.y \/ BottomOf(b) <= a.y
InsideCanvas(s) ==
    /\ 0 <= s.x /\ 0 < s.w /\ RightOf(s) <= W
    /\ 0 <= s.y /\ 0 < s.h /\ BottomOf(s) <= H
\* Every edge of a slot is a canvas edge or lies one gap away from a slot.
EdgesMeet(s) ==
    /\ s.x = 0 \/ \E j \in Slots : RightOf(canvas[j]) + spacing = s.x
    /\ s.y = 0 \/ \E j \in Slots : BottomOf(canvas[j]) + spacing = s.y
    /\ RightOf(s) = W \/ \E j \in Slots : canvas[j].x = RightOf(s) + spacing
    /\ BottomOf(s) = H \/ \E j \in Slots : canvas[j].y = BottomOf(s) + spacing

\* C1: for every count and spacing the slots are pairwise non-overlapping,
\* lie inside the canvas, and with the spacing gaps cover it exactly (no
\* column or row is left uncovered at the right or bottom edge).
C1_SlotsTileCanvas ==
    Composed =>
        /\ \A i \in Slots : InsideCanvas(canvas[i]) /\ EdgesMeet(canvas[i])
        /\ \A i, j \in Slots : i # j => Disjoint(canvas[i], canvas[j])

\* C2: for three images the layout is a full-height left column of width
\* (W - spacing) / 2 (integer division) and a right column of the remaining
\* width in two rows whose heights sum to H - spacing; for spacing 20 the
\* slots are (0,0,790,1200), (810,0,790,590), (810,610,790,590).
C2_ThreeSlotLayout ==
    (Composed /\ Len(canvas) = 3) =>
        LET a == canvas[1]
            b == canvas[2]
            c == canvas[3]
            SlotOf(s) == <<s.x, s.y, s.w, s.h>>
        IN  /\ SlotOf(a) = <<0, 0, (W - spacing) \div 2, H>>
            /\ b.x = a.w + spacing /\ c.x = b.x
            /\ b.w = W - b.x /\ c.w = b.w
            /\ b.y = 0 /\ c.y = b.h + spacing
            /\ b.h = (H - spacing) \div 2
            /\ b.h + c.h = H - spacing
            /\ spacing = 20 =>
                  /\ SlotOf(a) = <<0, 0, 790, 1200>>
                  /\ SlotOf(b) = <<810, 0, 790, 590>>
                  /\ SlotOf(c) = <<810, 610, 790, 590>>

C2_Witness ==
    /\ Composed /\ Len(canvas) = 3
    /\ spacing = 21
    /\ canvas[3].h = canvas[2].h + 1

C2_WitnessScenario ==
    /\ Composed /\ Len(canvas) = 3
    /\ spacing = 20
    /\ canvas[3].y = 610

IsTwoSquaresScenario ==
    /\ Composed
    /\ image_paths = <<"square", "square">>
    /\ spacing = 0
    /\ slot_configs.none

\* C9: two 1000x1000 images, spacing 0, default configs: two 800x1200 slots
\* at x = 0 and x = 800, each cropped over the full height with width
\* 1000 * (800/1200) centered on x = 500.
C9_TwoSquareImagesScenario ==
    IsTwoSquaresScenario =>
        /\ Len(canvas) = 2
        /\ <<canvas[1].x, canvas[1].y, canvas[1].w, canvas[1].h>> = <<0, 0, 800, 1200>>
        /\ <<canvas[2].x, canvas[2].y, canvas[2].w, canvas[2].h>> = <<800, 0, 800, 1200>>
        /\ \A i \in Slots :
              LET width == RMul(RInt(1000), Rat(800, 1200))
              IN  /\ canvas[i].box.top = R0
                  /\ canvas[i].box.bottom = RInt(1000)
                  /\ canvas[i].box.left = RSub(RInt(500), RDiv(width, RTwo))
                  /\ canvas[i].box.right = RAdd(RInt(500), RDiv(width, RTwo))

C9_Witness ==
    /\ IsTwoSquaresScenario
    /\ Len(canvas) = 2
    /\ canvas[2].src = "square"
    /\ canvas[2].box.left = Rat(500, 3)

(***************************************************************************)
(* Properties of the editor's commit (checked under SpecEditor).           *)
(***************************************************************************)
Saved == pc = "saved" /\ ~dialog_open
Committed == weeks_collage_config[editor_state.week_num].slots
PreviewScale == RHalf
SlotImgW(i) == RInt(ImageSize(canvas[i].src)[1])
SlotImgH(i) == RInt(ImageSize(canvas[i].src)[2])
CenterPxX(i) == RMul(SlotImgW(i), Committed[i].center_x)
CenterPxY(i) == RMul(SlotImgH(i), Committed[i].center_y)
MidX(b) == RDiv(RAdd(b.left, b.right), RTwo)
MidY(b) == RDiv(RAdd(b.top, b.bottom), RTwo)
Within1(a, b) == RLe(RAbs(RSub(a, b)), RInt(1))
SlotVisible(i) ==
    VisibleSize(ImageSize(canvas[i].src)[1], ImageSize(canvas[i].src)[2],
                canvas[i].w, canvas[i].h, Committed[i])
\* The rectangle centered on c with extent v lies within [0, extent].
FitsUnclamped(c, v, extent) ==
    /\ RLe(R0, RSub(c, RDiv(v, RTwo)))
    /\ RLe(RAdd(c, RDiv(v, RTwo)), extent)
CommittedCentersFromPan ==
    \A i \in 1..Len(Committed) :
        LET tx == editor_state.current_pan[i][1]
            ty == editor_state.current_pan[i][2]
            img == editor_state.images[i]
        IN  /\ Committed[i].center_x =
                  RSub(RHalf, RDiv(RDiv(tx, PreviewScale), RInt(ImageSize(img)[1])))
            /\ Committed[i].center_y =
                  RSub(RHalf, RDiv(RDiv(ty, PreviewScale), RInt(ImageSize(img)[2])))

\* C10 as stated: the committed center is 0.5 - (t/k)/extent on each axis,
\* and the crop rectangle computed from it has its midpoint within 1 pixel
\* of (img_w*cx, img_h*cy).
C10_CommitRoundTrip ==
    Saved =>
        /\ CommittedCentersFromPan
        /\ \A i \in 1..Len(canvas) :
              /\ Within1(MidX(canvas[i].box), CenterPxX(i))
              /\ Within1(MidY(canvas[i].box), CenterPxY(i))

\* C10 amended: the midpoint is within 1 pixel of the committed center on
\* every axis where the rectangle centered there fits inside the source.
C10_CommitRoundTripWhereUnclamped ==
    Saved =>
        /\ CommittedCentersFromPan
        /\ \A i \in 1..Len(canvas) :
              /\ FitsUnclamped(CenterPxX(i), SlotVisible(i)[1], SlotImgW(i))
                    => Within1(MidX(canvas[i].box), CenterPxX(i))
              /\ FitsUnclamped(CenterPxY(i), SlotVisible(i)[2], SlotImgH(i))
                    => Within1(MidY(canvas[i].box), CenterPxY(i))

C10_Witness ==
    /\ Saved
    /\ \E i \in 1..Len(canvas) :
          /\ editor_state.current_pan[i][1] = RInt(1)
          /\ Committed[i].center_x = Rat(9, 20)
          /\ FitsUnclamped(CenterPxX(i), SlotVisible(i)[1], SlotImgW(i))
          /\ MidX(canvas[i].box) = RInt(18)

(***************************************************************************)
(* Properties of the crop solver (checked under SpecCrop).                 *)
(***************************************************************************)
Cropped == pc = "cropped"
InW == RInt(crop_in.img_w)
InH == RInt(crop_in.img_h)
InVisible == VisibleSize(crop_in.img_w, crop_in.img_h, crop_in.target_w,
                         crop_in.target_h, crop_in.config)
BoxW(b) == RSub(b.right, b.left)
BoxH(b) == RSub(b.bottom, b.top)
CropWith(config) == CropBox(crop_in.img_w, crop_in.img_h, crop_in.target_w,
                            crop_in.target_h, config)
InBoundsX(b) == RLe(R0, b.left) /\ RLe(b.right, InW)
InBoundsY(b) == RLe(R0, b.top) /\ RLe(b.bottom, InH)
RecenteredX(b) ==
    /\ b.left = RNeg(RDiv(RSub(InVisible[1], InW), RTwo))
    /\ b.right = RAdd(InW, RDiv(RSub(InVisible[1], InW), RTwo))
RecenteredY(b) ==
    /\ b.top = RNeg(RDiv(RSub(InVisible[2], InH), RTwo))
    /\ b.bottom = RAdd(InH, RDiv(RSub(InVisible[2], InH), RTwo))
IsDefaultView == crop_in.config = DefaultConfig

\* C3: with zoom = 1 and cx = cy = 0.5 the crop rectangle is a non-empty
\* rectangle inside [0,img_w] x [0,img_h] whose aspect ratio is within 1e-3 of
\* target_w / target_h.
C3_DefaultCropInsideWithTargetAspect ==
    (Cropped /\ IsDefaultView) =>
        /\ RLe(R0, box.left) /\ RLt(box.left, box.right) /\ RLe(box.right, InW)
        /\ RLe(R0, box.top) /\ RLt(box.top, box.bottom) /\ RLe(box.bottom, InH)
        /\ RLe(RAbs(RSub(RDiv(BoxW(box), BoxH(box)),
                         Rat(crop_in.target_w, crop_in.target_h))),
               Rat(1, 1000))

C3_Witness ==
    /\ Cropped /\ IsDefaultView
    /\ RLt(R0, box.left)
    /\ crop_in.target_w # crop_in.target_h

\* C4: for any two zooms z1 < z2 the rectangle for z2 is strictly narrower
\* and strictly lower than the rectangle for z1, clamped or re-centered.
C4_ZoomStrictlyShrinksCrop ==
    Cropped =>
        \A z2 \in Zooms :
            RLt(crop_in.config.zoom, z2) =>
                LET b2 == CropWith([crop_in.config EXCEPT !.zoom = z2])
                IN  /\ RLt(BoxW(b2), BoxW(box))
                    /\ RLt(BoxH(b2), BoxH(box))

C4_Witness ==
    /\ Cropped
    /\ crop_in.config.zoom = Rat(19, 20)
    /\ RLt(box.left, R0)
    /\ crop_in.config.center_x = R0
    /\ LET b2 == CropWith([crop_in.config EXCEPT !.zoom = RInt(2)])
       IN  b2.left = R0 /\ RLt(b2.right, InW)

\* C5: on an axis where the visible extent is at most the source extent the
\* rectangle lies inside the source and keeps the visible extent (clamping
\* shifts, never shrinks).
C5_ClampShiftsNeverShrinks ==
    Cropped =>
        /\ RLe(InVisible[1], InW) => (InBoundsX(box) /\ BoxW(box) = InVisible[1])
        /\ RLe(InVisible[2], InH) => (InBoundsY(box) /\ BoxH(box) = InVisible[2])

C5_Witness ==
    /\ Cropped
    /\ RLt(InVisible[1], InW)
    /\ crop_in.config.center_x = R0
    /\ box.left = R0 /\ box.right = InVisible[1]
    /\ RLt(InVisible[2], InH)
    /\ crop_in.config.center_y = RInt(1)
    /\ box.bottom = InH

\* C6: on an axis where the visible extent exceeds the source extent the
\* rectangle is the re-centered one, the same for every requested center,
\* whatever the other axis does.
C6_ZoomedOutAxisIsRecentered ==
    Cropped =>
        /\ RLt(InW, InVisible[1]) =>
              /\ RecenteredX(box)
              /\ \A c \in Centers :
                    LET bx == CropWith([crop_in.config EXCEPT !.center_x = c])
                        by == CropWith([crop_in.config EXCEPT !.center_y = c])
                    IN  /\ bx.left = box.left /\ bx.right = box.right
                        /\ by.left = box.left /\ by.right = box.right
        /\ RLt(InH, InVisible[2]) =>
              /\ RecenteredY(box)
              /\ \A c \in Centers :
                    LET bx == CropWith([crop_in.config EXCEPT !.center_x = c])
                        by == CropWith([crop_in.config EXCEPT !.center_y = c])
                    IN  /\ bx.top = box.top /\ bx.bottom = box.bottom
                        /\ by.top = box.top /\ by.bottom = box.bottom

C6_Witness ==
    /\ Cropped
    /\ RLt(InW, InVisible[1])
    /\ RLe(InVisible[2], InH)
    /\ crop_in.config.center_x = R0
    /\ crop_in.config.center_y = R0
    /\ box.top = R0

\* C7: the final rectangle has aspect ratio target_w / target_h.
C7_CropKeepsTargetAspect ==
    Cropped =>
        /\ RLt(R0, BoxH(box))
        /\ RDiv(BoxW(box), BoxH(box)) = Rat(crop_in.target_w, crop_in.target_h)

C7_Witness ==
    /\ Cropped
    /\ RLt(InW, InVisible[1])
    /\ RLt(InVisible[2], InH)
    /\ crop_in.config.center_y = RInt(1)
    /\ box.bottom = InH
    /\ crop_in.target_w # crop_in.target_h

IsMaxZoomOutOnSquare ==
    /\ Cropped
    /\ crop_in.config.zoom = Rat(1, 10)
    /\ crop_in.img_w = crop_in.img_h
    /\ crop_in.target_w # crop_in.target_h

EditedWeek == editor_state.week_num
CommittedSlots(w) == weeks_collage_config[w].slots

\* C11: opening the editor on a week that has a committed configuration and
\* pressing Save with no pan or zoom event in between stores a slot list
\* equal to the committed one, whatever the committed centers are.
C11_ReopenSaveKeepsConfig ==
    [][(/\ last_event.kind = "open" /\ dialog_open
        /\ weeks_collage_config[EditedWeek].has
        /\ last_event'.kind = "save")
       => CommittedSlots(EditedWeek)' = CommittedSlots(EditedWeek)]_vars

TempZoom(i) == editor_state.temp_configs[i].zoom
InZoomRange(z) == RLe(Rat(1, 10), z) /\ RLe(z, RInt(5))
ClampedZoom(z) == RMax(Rat(1, 10), RMin(RInt(5), z))
WheelWithModifier == last_event.kind = "wheel" /\ last_event.modifier
WheelWithoutModifier == last_event.kind = "wheel" /\ ~last_event.modifier

\* C12: every working zoom of a session lies in [0.1, 5.0], at its start and
\* after any wheel events; a wheel event with ctrl/meta changes the zoom of
\* one slot to the old value times 0.95 or 1.05, clamped to that range, and a
\* wheel event without ctrl/meta leaves every zoom unchanged.
C12_WheelKeepsZoomInRange ==
    [][/\ \A i \in DOMAIN editor_state'.temp_configs : InZoomRange(TempZoom(i)')
       /\ WheelWithModifier' =>
             \E i \in DOMAIN editor_state.temp_configs :
                 /\ \/ TempZoom(i)' = ClampedZoom(RMul(TempZoom(i), Rat(95, 100)))
                    \/ TempZoom(i)' = ClampedZoom(RMul(TempZoom(i), Rat(105, 100)))
                 /\ \A j \in DOMAIN editor_state.temp_configs :
                        j # i => TempZoom(j)' = TempZoom(j)
       /\ WheelWithoutModifier' =>
             editor_state'.temp_configs = editor_state.temp_configs]_vars

\* Both clamps were reached: slot 1 started at 5.0 and slot 2 at 0.1, each
\* took one wheel step, and only slot 2 could move.
C12_Witness ==
    /\ dialog_open /\ WheelWithModifier /\ wheels = 2
    /\ Len(editor_state.temp_configs) = 2
    /\ TempZoom(1) = RInt(5)
    /\ TempZoom(2) = Rat(21, 200)

\* What open_collage_editor starts a session on week w from.
StartConfigs(w) ==
    [i \in 1..Len(weeks_originals[w]) |->
        IF i <= Len(CommittedSlots(w)) THEN CommittedSlots(w)[i]
        ELSE DefaultConfig]
StartSpacing(w) ==
    IF weeks_collage_config[w].has THEN weeks_collage_config[w].spacing ELSE 0
JustCancelled == last_event.kind = "cancel"
JustOpened == last_event.kind = "open" /\ dialog_open

\* C13: after Cancel, whatever pan, zoom and spacing events the session saw,
\* weeks_collage_config and weeks_data are exactly as they were when the
\* session was opened, and a session opened next starts from the committed
\* configuration (or the default), not from the discarded values.
C13_CancelDiscardsSession ==
    /\ JustCancelled =>
          /\ weeks_collage_config = at_open.config
          /\ weeks_data = at_open.data
    /\ JustOpened =>
          /\ editor_state.temp_configs = StartConfigs(EditedWeek)
          /\ editor_state.spacing = StartSpacing(EditedWeek)
          /\ editor_state.current_pan =
                 [i \in 1..Len(editor_state.images) |->
                     CalculatePan(editor_state.images[i],
                                  StartConfigs(EditedWeek)[i])]

\* A session that handled a zoom step and one more event was cancelled and
\* the editor was opened again on a week with a committed configuration.
C13_Witness ==
    /\ JustOpened /\ pc = "cancelled" /\ wheels = 1
    /\ weeks_collage_config[EditedWeek].has
    /\ preview_slots = PreviewRects(2, 20)
    /\ events = 5

(***************************************************************************)
(* Properties of failing and repeated compositions (checked under          *)
(* SpecCompose).                                                           *)
(***************************************************************************)
Returned == pc = "returned"
ProcessPaths == SubSeq(image_paths, 1, Min(4, Len(image_paths)))
SomeSlotUnreadable == \E i \in 1..Len(ProcessPaths) : ProcessPaths[i] \in unreadable
ReturnedSourcePath == result \in Images

\* C14: when a slot's image cannot be decoded, generate_collage reports a
\* failure; it never returns the path of a source image (image_paths[0]) as
\* if it were the composed result.
C14_FailureNeverReturnsSource ==
    (Returned /\ SomeSlotUnreadable) => ~ReturnedSourcePath

InvalidZoom(c) == ~InZoomRange(c.zoom)
SomeUsedConfigInvalid ==
    /\ ~slot_configs.none
    /\ \E i \in 1..Min(Len(slot_configs.list), Len(ProcessPaths)) :
           InvalidZoom(slot_configs.list[i])

\* C15: a slot configuration with a zoom outside [0.1, 5.0] (for example 0),
\* at any slot index, is rejected before any source image is opened: the
\* call opens nothing and returns no composed collage.
C15_InvalidConfigRejectedBeforeOpen ==
    (Returned /\ SomeUsedConfigInvalid) =>
        /\ opened = <<>>
        /\ result # "out_path"

WrittenFiles == {t \in DOMAIN files : files[t] # "absent"}

\* C16: a successful call writes exactly one output file, complete, at the
\* path it returns; a call that fails at any step (decode, resize, paste,
\* encode) leaves no file at the output path.
C16_OutputIsAtomic ==
    (Returned /\ calls = 1) =>
        IF result = "out_path"
        THEN WrittenFiles = {out_name} /\ files[out_name] = "complete"
        ELSE WrittenFiles = {}

InUnit(r) == RLe(R0, r) /\ RLe(r, RInt(1))
ValidSlotConfig(c) == InUnit(c.center_x) /\ InUnit(c.center_y) /\ InZoomRange(c.zoom)
JustSaved == last_event.kind = "save" /\ pc = "saved"

\* C18: every slot configuration that Save commits has center_x and
\* center_y in [0, 1] and zoom in [0.1, 5.0], whatever drag and wheel
\* events came before the save.
C18_CommittedConfigsAreValid ==
    JustSaved =>
        \A i \in DOMAIN CommittedSlots(EditedWeek) :
            ValidSlotConfig(CommittedSlots(EditedWeek)[i])

EventKind == last_event.kind
EventWeek == last_event.week
OtherWeeksKeepConfig(w) ==
    \A k \in Weeks : k # w => weeks_collage_config'[k] = weeks_collage_config[k]

Rendered == pc = "rendered"
FullSlots == SlotRects(Len(editor_state.images), editor_state.spacing)
\* How far a preview length is from half of the full-canvas length.
OffHalf(preview, full) == RAbs(RSub(preview, RDiv(RInt(full), RTwo)))
SlotOffHalf(i) ==
    {OffHalf(preview_slots[i].x, FullSlots[i].x),
     OffHalf(preview_slots[i].y, FullSlots[i].y),
     OffHalf(preview_slots[i].w, FullSlots[i].w),
     OffHalf(preview_slots[i].h, FullSlots[i].h)}
SpacingIsEven == editor_state.spacing % 2 = 0

\* C20: for 2, 3 and 4 images and every integer spacing 0..50, each preview
\* slot rectangle equals 0.5 times the compositor's slot rectangle.
C20_PreviewIsHalfOfCompositor ==
    Rendered =>
        /\ Len(preview_slots) = Len(FullSlots)
        /\ \A i \in DOMAIN preview_slots : SlotOffHalf(i) = {R0}

\* C20 amended: the preview rectangle equals 0.5 times the compositor's for
\* every even spacing; for an odd spacing every coordinate and size is
\* within a quarter of a preview pixel of it.
C20_PreviewIsHalfOfCompositorUpToRounding ==
    Rendered =>
        /\ Len(preview_slots) = Len(FullSlots)
        /\ \A i \in DOMAIN preview_slots :
              IF SpacingIsEven THEN SlotOffHalf(i) = {R0}
              ELSE \A d \in SlotOffHalf(i) : RLe(d, Rat(1, 4))

\* Three images at spacing 1: the preview's right column is 399.75 wide, the
\* compositor's 800.
C20_Witness ==
    /\ Rendered
    /\ editor_state.spacing = 1
    /\ Len(preview_slots) = 3
    /\ preview_slots[2].w = Rat(1599, 4)
    /\ FullSlots[2].w = 800

(***************************************************************************)
(* Properties of the editor's pan and zoom handlers (checked under         *)
(* SpecEditor).                                                            *)
(***************************************************************************)
Pans == editor_state.current_pan
DraggedSlot == editor_state.dragging_idx
MouseAt == editor_state.drag_start
PanZoomEvent == last_event.kind \in {"mousedown", "mousemove", "mouseup", "wheel"}
MouseMoved == last_event.kind = "mousemove"
\* No mousedown was handled since the session opened or since the last
\* mouseup/mouseleave.
NoDragInProgress == last_event.kind \in {"open", "mouseup"}
OnlyZoomOfSlotMayChange(i) ==
    /\ DOMAIN editor_state'.temp_configs = DOMAIN editor_state.temp_configs
    /\ \A j \in DOMAIN editor_state.temp_configs :
           /\ j # i => editor_state'.temp_configs[j] = editor_state.temp_configs[j]
           /\ editor_state'.temp_configs[j] =
                  [editor_state.temp_configs[j] EXCEPT !.zoom = TempZoom(j)']
MovedBy(old, new, dx, dy) ==
    /\ new[1] = RAdd(old[1], RInt(dx))
    /\ new[2] = RAdd(old[2], RInt(dy))

\* C21: a wheel event on slot i changes at most the zoom of slot i; a
\* mousemove changes at most the pan of the slot a mousedown put under drag,
\* by the displacement of the mouse; a mousemove with no drag in progress
\* (the session just opened, or a mouseup/mouseleave was the last event)
\* changes no pan; and no pan or zoom event changes the spacing, another
\* slot's values, or the week's committed state.
C21_PanZoomArePerSlot ==
    [][/\ \A i \in 1..4, m \in BOOLEAN, d \in {-1, 1} :
              HandleWheel(i, m, d) =>
                  /\ OnlyZoomOfSlotMayChange(i)
                  /\ Pans' = Pans
       /\ PanZoomEvent' =>
              /\ editor_state'.spacing = editor_state.spacing
              /\ editor_state'.images = editor_state.images
              /\ UNCHANGED weekVars
       /\ (PanZoomEvent' /\ ~MouseMoved') => Pans' = Pans
       /\ (PanZoomEvent' /\ last_event'.kind # "wheel") =>
              editor_state'.temp_configs = editor_state.temp_configs
       /\ MouseMoved' =>
              /\ DOMAIN Pans' = DOMAIN Pans
              /\ \A j \in DOMAIN Pans :
                     IF j = DraggedSlot
                     THEN MovedBy(Pans[j], Pans'[j], MouseAt'[1] - MouseAt[1],
                                  MouseAt'[2] - MouseAt[2])
                     ELSE Pans'[j] = Pans[j]
       /\ (NoDragInProgress /\ MouseMoved') => Pans' = Pans]_vars

(***************************************************************************)
(* Properties of the paste order (checked under SpecAnyOrder).             *)
(***************************************************************************)
Covers(paste, x, y) ==
    /\ paste.x <= x /\ x < RightOf(paste)
    /\ paste.y <= y /\ y < BottomOf(paste)
\* What the canvas shows at pixel (x, y) after the pastes were made in this
\* order: the last paste that covers the pixel, or the white background.
PixelAt(pastes, x, y) ==
    LET covering == {k \in DOMAIN pastes : Covers(pastes[k], x, y)}
    IN  IF covering = {} THEN "white"
        ELSE pastes[CHOOSE k \in covering : \A j \in covering : j <= k]
\* The pixels where two canvases painted from the same rectangles can differ:
\* where two rectangles overlap, the pixel at the larger of their left edges
\* and the larger of their top edges lies in both.
ProbePixels(pastes) ==
    {<<pastes[i].x, pastes[j].y>> : i, j \in DOMAIN pastes}
    \cup {<<0, 0>>, <<W - 1, 0>>, <<0, H - 1>>, <<W - 1, H - 1>>}
InCodeOrder == Compose(image_paths, spacing, slot_configs).canvas
SameCanvas(a, b) ==
    \A p \in ProbePixels(a) \cup ProbePixels(b) :
        PixelAt(a, p[1], p[2]) = PixelAt(b, p[1], p[2])
PastedAnyOrder == pc = "returned" /\ result = "out_path"

\* C22: for every count and every spacing of the slider, whatever the order
\* in which the slots were decoded, cropped and pasted, the final canvas is
\* the one the pastes made in slot order give.
C22_PasteOrderIrrelevant ==
    PastedAnyOrder => SameCanvas(canvas, InCodeOrder)

\* Four slots with an odd spacing were pasted last slot first.
C22_Witness ==
    /\ PastedAnyOrder /\ spacing = 1 /\ Len(canvas) = 4
    /\ canvas[1] = InCodeOrder[4] /\ canvas[4] = InCodeOrder[1]
    /\ canvas # InCodeOrder

(***************************************************************************)
(* Properties of the output files and of where an image is (checked under  *)
(* SpecApp).                                                               *)
(***************************************************************************)
\* This step called generate_collage for week w and the call returned a path.
ComposedFor(w) ==
    /\ result' = "out_path"
    /\ \/ last_event'.kind = "save" /\ EditedWeek = w
       \/ /\ last_event'.kind = "drop_week" /\ last_event'.week = w
          /\ dragged_image # "None"
          /\ Len(weeks_originals'[w]) >= 2

\* C23: the path a successful generate_collage call returns for a week is
\* not the path of the collage another week still displays, so the file of the
\* other week's composite is not overwritten, whether or not the clock moved
\* between the two calls.
C23_ReturnedPathsAreDistinct ==
    [][\A w \in Weeks : ComposedFor(w) =>
           \A v \in Weeks \ {w} : weeks_data'[v] # CollagePath(out_name')]_vars

(***************************************************************************)
(* Properties of where an image is (checked under SpecGrid).               *)
(***************************************************************************)
InWeek(w, p) == Contains(weeks_originals[w], p)

\* C24: after any sequence of drag starts, drops on a week, drops on the
\* source panel and cell resets, no image is both in the source list and in
\* a week's originals, no image is in the originals of two weeks, and a week
\* that displays nothing has no originals and no collage config.
C24_ImageInOnePlace ==
    /\ \A w \in Weeks, p \in Paths : ~(InWeek(w, p) /\ Contains(images, p))
    /\ \A w, v \in Weeks, p \in Paths : (InWeek(w, p) /\ InWeek(v, p)) => w = v
    /\ \A w \in Weeks : weeks_data[w] = "None" =>
           /\ weeks_originals[w] = <<>>
           /\ ~weeks_collage_config[w].has
=============================================================================
